---- MODULE Spec2Model ----
(***************************************************************************)
(* Model of dailychange.py: the sector cache bootstrap                     *)
(* (load_sector_cache / build_sector_cache / ensure_sector_cache) and the  *)
(* fetch -> compute -> render -> sleep loop of main().                     *)
(***************************************************************************)
EXTENDS Integers, Sequences, FiniteSets, TLC

(***************************************************************************)
(* Bounds of the model.                                                    *)
(***************************************************************************)
MaxRows == 2
MaxPrice == 2
MaxCalls == 2

(***************************************************************************)
(* Universe and basic values.                                              *)
(***************************************************************************)
\* The ordered, duplicate-free ticker universe.  The program's list has 98
\* symbols; the model keeps two of them, enough for one ticker to fail
\* while another succeeds and for two rows to share a sector block.
TICKERS == <<"AAA", "BBB">>

Range(s) == {s[i] : i \in 1..Len(s)}

\* A key a cache file can hold that is not (any longer) in the universe.
StaleKey == "ZZZ"

\* Sector names, listed in lexicographic (code point) order.
SectorNames == <<"ETF", "Technology", "Unknown">>

\* JSON values a cache entry can hold: a string, or something else (a number).
Str(s) == [t |-> "str", v |-> s]
NumVal == [t |-> "num", v |-> "7"]
JsonVals == {Str(SectorNames[i]) : i \in 1..Len(SectorNames)} \cup {NumVal}

\* Python dicts are functions; {} is the function with the empty domain.
EmptyDict == [k \in {} |-> NumVal]

\* dict.update: entries of b win over entries of a.
Update(a, b) ==
  [k \in (DOMAIN a) \cup (DOMAIN b) |-> IF k \in DOMAIN b THEN b[k] ELSE a[k]]

(***************************************************************************)
(* The cache file.  kind: "absent" (no such path), "unreadable" (exists,   *)
(* open fails), "invalid" (not JSON), "array" (JSON, not an object),       *)
(* "object" (a JSON object, held as its set of key/value members).         *)
(***************************************************************************)
File(kind, members) == [kind |-> kind, members |-> members]

\* json.dump of a dict: one member per key.
JsonDump(d) == {<<k, d[k]>> : k \in DOMAIN d}

\* json.load of an object: the dict of its members.
JsonLoad(members) ==
  [k \in {m[1] : m \in members} |-> (CHOOSE m \in members : m[1] = k)[2]]

\* The objects a file can hold: any keys among the universe and the stale
\* key, any JSON value for each.
FileObjects ==
  UNION {[ks -> JsonVals] : ks \in SUBSET (Range(TICKERS) \cup {StaleKey})}

FileStates ==
  {File(k, {}) : k \in {"absent", "unreadable", "invalid", "array"}}
    \cup {File("object", JsonDump(d)) : d \in FileObjects}

\* What one sector lookup can do: raise, return an info dict without a
\* "sector" key, or return one with a sector name.
LookupFail == "<raise>"
LookupNoKey == "<no sector key>"
LookupOutcomes == {LookupFail, LookupNoKey, "ETF", "Technology"}

\* What writing the file can do: succeed, fail in open() (file untouched),
\* or fail in json.dump after open() truncated the file.
WriteOutcomes == {"ok", "open_fails", "dump_fails"}

VARIABLES
  file,       \* the cache file at SECTOR_CACHE_FILE
  provider,   \* environment: outcome of yf.Ticker(tk).info per ticker
  disk,       \* environment: outcome of writing the cache file
  pc,         \* "start", "fetching", "sleeping", "crashed"
  calls,      \* number of ensure_sector_cache calls made
  sectors,    \* mapping returned by the last ensure_sector_cache call
  loaded,     \* what load_sector_cache returned in the last call
  looked,     \* tickers looked up in the last call, in order
  wrote,      \* "none" or the outcome of the write in the last call
  prev,       \* sectors/looked/wrote of the call before the last one
  data,       \* what yf.download did in the current cycle
  results,    \* the results list of the current cycle
  out,        \* what the current cycle printed and logged
  prevFailed  \* whether the previous cycle ended in the outer handler

cacheVars == <<file, provider, disk, calls, sectors, loaded, looked, wrote, prev>>
cycleVars == <<data, results, out, prevFailed>>
vars == <<file, provider, disk, pc, calls, sectors, loaded, looked, wrote, prev,
          data, results, out, prevFailed>>

(***************************************************************************)
(* load_sector_cache                                                       *)
(***************************************************************************)
load_sector_cache(f) ==
  IF f.kind = "object" THEN JsonLoad(f.members) ELSE EmptyDict

(***************************************************************************)
(* build_sector_cache: one lookup per ticker of the list, in order; a      *)
(* lookup that raises is recorded as "Unknown" and the loop goes on.       *)
(***************************************************************************)
SectorOf(outcome) ==
  IF outcome = LookupFail THEN Str("Unknown")
  ELSE IF outcome = LookupNoKey THEN Str("Unknown")
  ELSE Str(outcome)

\* Variant: the first lookup that raises ends the batch and propagates.
RECURSIVE build_loop_abort(_, _, _)
build_loop_abort(tickers, info, acc) ==
  IF tickers = <<>> THEN acc
  ELSE LET tk == Head(tickers)
       IN IF info[tk] = LookupFail
          THEN [sectors |-> acc.sectors, looked |-> Append(acc.looked, tk),
                raised |-> TRUE]
          ELSE build_loop_abort(Tail(tickers), info,
                 [sectors |-> Update(acc.sectors, [k \in {tk} |-> SectorOf(info[tk])]),
                  looked  |-> Append(acc.looked, tk),
                  raised  |-> FALSE])

\* Variant: a lookup that raises leaves the ticker without an entry.
RECURSIVE build_loop_skip_failed(_, _, _)
build_loop_skip_failed(tickers, info, acc) ==
  IF tickers = <<>> THEN acc
  ELSE LET tk == Head(tickers)
       IN build_loop_skip_failed(Tail(tickers), info,
            [sectors |-> IF info[tk] = LookupFail THEN acc.sectors
                         ELSE Update(acc.sectors, [k \in {tk} |-> SectorOf(info[tk])]),
             looked  |-> Append(acc.looked, tk),
             raised  |-> FALSE])

RECURSIVE build_loop(_, _, _)
build_loop(tickers, info, acc) ==
  IF tickers = <<>> THEN acc
  ELSE LET tk == Head(tickers)
       IN build_loop(Tail(tickers), info,
            [sectors |-> Update(acc.sectors, [k \in {tk} |-> SectorOf(info[tk])]),
             looked  |-> Append(acc.looked, tk),
             raised  |-> FALSE])

build_sector_cache(tickers, info) ==
  build_loop(tickers, info, [sectors |-> EmptyDict, looked |-> <<>>, raised |-> FALSE])

(***************************************************************************)
(* ensure_sector_cache                                                     *)
(***************************************************************************)
\* Variant: every ticker counts as missing (the cache is rebuilt).
Missing_all(tickers, d) == tickers

Missing(tickers, d) == SelectSeq(tickers, LAMBDA tk : tk \notin DOMAIN d)

\* Variant: the merged mapping is never persisted.
WriteFile_never(f, d, outcome) ==
  IF outcome = "dump_fails" THEN File("invalid", {}) ELSE f

WriteFile(f, d, outcome) ==
  IF outcome = "ok" THEN File("object", JsonDump(d))
  ELSE IF outcome = "dump_fails" THEN File("invalid", {})
  ELSE f

\* Variant: the lookups are made for the whole universe, the merge keeps
\* the loaded entries.
ensure_sector_cache_lookup_all(f, tickers, info, outcome) ==
  LET ld      == load_sector_cache(f)
      missing == Missing(tickers, ld)
      fetched == build_sector_cache(tickers, info)
      merged  == Update(fetched.sectors, ld)
  IN IF missing # <<>>
     THEN [sectors |-> merged, file |-> WriteFile(f, merged, outcome),
           loaded |-> ld, looked |-> fetched.looked, wrote |-> outcome,
           raised |-> fetched.raised]
     ELSE [sectors |-> ld, file |-> f, loaded |-> ld, looked |-> <<>>,
           wrote |-> "none", raised |-> FALSE]

\* Variant: a failed write is not caught.
ensure_sector_cache_write_raises(f, tickers, info, outcome) ==
  LET ld      == load_sector_cache(f)
      missing == Missing(tickers, ld)
      fetched == build_sector_cache(missing, info)
      merged  == Update(ld, fetched.sectors)
  IN IF missing # <<>>
     THEN [sectors |-> IF outcome = "ok" THEN merged ELSE ld,
           file |-> WriteFile(f, merged, outcome),
           loaded |-> ld, looked |-> fetched.looked, wrote |-> outcome,
           raised |-> fetched.raised \/ outcome # "ok"]
     ELSE [sectors |-> ld, file |-> f, loaded |-> ld, looked |-> <<>>,
           wrote |-> "none", raised |-> FALSE]

\* Variant: only the newly fetched entries are written to the file.
ensure_sector_cache_writes_new_only(f, tickers, info, outcome) ==
  LET ld      == load_sector_cache(f)
      missing == Missing(tickers, ld)
      fetched == build_sector_cache(missing, info)
      merged  == Update(ld, fetched.sectors)
  IN IF missing # <<>>
     THEN [sectors |-> merged, file |-> WriteFile(f, fetched.sectors, outcome),
           loaded |-> ld, looked |-> fetched.looked, wrote |-> outcome,
           raised |-> fetched.raised]
     ELSE [sectors |-> ld, file |-> f, loaded |-> ld, looked |-> <<>>,
           wrote |-> "none", raised |-> FALSE]

ensure_sector_cache(f, tickers, info, outcome) ==
  LET ld      == load_sector_cache(f)
      missing == Missing(tickers, ld)
      fetched == build_sector_cache(missing, info)
      merged  == Update(ld, fetched.sectors)
  IN IF missing # <<>>
     THEN [sectors |-> merged,
           file    |-> WriteFile(f, merged, outcome),
           loaded  |-> ld,
           looked  |-> fetched.looked,
           wrote   |-> outcome,
           raised  |-> fetched.raised]
     ELSE [sectors |-> ld,
           file    |-> f,
           loaded  |-> ld,
           looked  |-> <<>>,
           wrote   |-> "none",
           raised  |-> FALSE]

(***************************************************************************)
(* Floating point values of a result record.  A finite value is the exact  *)
(* fraction n/d in lowest terms (d > 0); division by zero yields inf or    *)
(* nan as numpy.float64 does; None is Python's None.                       *)
(***************************************************************************)
RECURSIVE GCD(_, _)
GCD(a, b) == IF b = 0 THEN a ELSE GCD(b, a % b)

Abs(x) == IF x < 0 THEN -x ELSE x

None == [k |-> "none", n |-> 0, d |-> 1]
NaN == [k |-> "nan", n |-> 0, d |-> 1]
Inf(sign) == [k |-> "inf", n |-> sign, d |-> 1]
Num(n, d) ==
  LET g == GCD(Abs(n), d) IN [k |-> "num", n |-> n \div g, d |-> d \div g]

\* (current - prev) / prev * 100.0 on numpy.float64 operands.
PercentChange(p, c) ==
  IF p = 0
  THEN IF c > p THEN Inf(1) ELSE IF c < p THEN Inf(-1) ELSE NaN
  ELSE Num((c - p) * 100, p)

\* pandas treats None and NaN as missing.
IsNA(x) == x.k \in {"none", "nan"}

\* x <= y on non-missing values.
FloatLE(x, y) ==
  IF x.k = "inf" THEN x.n < 0 \/ (y.k = "inf" /\ y.n > 0)
  ELSE IF y.k = "inf" THEN y.n > 0
  ELSE x.n * y.d <= y.n * x.d

(***************************************************************************)
(* The price table returned by yf.download.  A cell of a Close column is   *)
(* a price or the missing marker; all columns share the table's rows.      *)
(***************************************************************************)
MissingCell == -1
Cells == {MissingCell} \cup (0..MaxPrice)

Download(kind, rows, close) == [kind |-> kind, rows |-> rows, close |-> close]
NoTable == [tk \in {} |-> <<>>]
NotFetched == Download("pending", 0, NoTable)

\* yf.download raises, returns None or returns an empty frame ...
FailedDownloads == {Download(k, 0, NoTable) : k \in {"error", "none", "empty"}}

\* ... or returns a frame with L >= 1 rows and a Close column for the
\* tickers of cols.
Tables(L, cols) == [kind : {"table"}, rows : {L}, close : [cols -> [1..L -> Cells]]]

\* Series.dropna()
dropna(s) == SelectSeq(s, LAMBDA x : x # MissingCell)

(***************************************************************************)
(* main, lines 224-251: the result record of one ticker.  A record built   *)
(* by the except branch has the key "Error"; one built by the try branch   *)
(* does not (HasError = FALSE, and r.get("Error") is None).                *)
(***************************************************************************)
InsufficientHistory == "Insufficient history"
\* Variant: the message of the exception is lost.
KeyErrorText_empty(tk) == ""

\* str(KeyError(tk))
KeyErrorText(tk) == "'" \o tk \o "'"

SectorGet(d, tk) == IF tk \in DOMAIN d THEN d[tk] ELSE Str("Unknown")

ErrorResult(tk, sec, msg) ==
  [Ticker |-> tk, Sector |-> SectorGet(sec, tk), Previous |-> None,
   Current |-> None, Change |-> None, HasError |-> TRUE, Error |-> msg]

\* Variant: Previous and Current are taken the other way round.
ResultFor_swapped(tk, d, sec) ==
  IF tk \notin DOMAIN d.close
  THEN ErrorResult(tk, sec, KeyErrorText(tk))
  ELSE LET s == dropna(d.close[tk])
       IN IF Len(s) < 2
          THEN ErrorResult(tk, sec, InsufficientHistory)
          ELSE LET p == s[Len(s)]
                   c == s[Len(s) - 1]
               IN [Ticker |-> tk, Sector |-> SectorGet(sec, tk),
                   Previous |-> Num(p, 1), Current |-> Num(c, 1),
                   Change |-> PercentChange(p, c),
                   HasError |-> FALSE, Error |-> ""]

ResultFor(tk, d, sec) ==
  IF tk \notin DOMAIN d.close
  THEN ErrorResult(tk, sec, KeyErrorText(tk))
  ELSE LET s == dropna(d.close[tk])
       IN IF Len(s) < 2
          THEN ErrorResult(tk, sec, InsufficientHistory)
          ELSE LET p == s[Len(s) - 1]
                   c == s[Len(s)]
               IN [Ticker |-> tk, Sector |-> SectorGet(sec, tk),
                   Previous |-> Num(p, 1), Current |-> Num(c, 1),
                   Change |-> PercentChange(p, c),
                   HasError |-> FALSE, Error |-> ""]

\* Variant: the first ticker that fails ends the loop over the tickers.
RECURSIVE BuildResults_stop_at_error(_, _, _, _)
BuildResults_stop_at_error(tickers, d, sec, acc) ==
  IF tickers = <<>> THEN acc
  ELSE LET r == ResultFor(Head(tickers), d, sec)
       IN IF r.HasError THEN Append(acc, r)
          ELSE BuildResults_stop_at_error(Tail(tickers), d, sec, Append(acc, r))

\* Variant: a ticker that fails gets no record.
RECURSIVE BuildResults_skip_failed(_, _, _, _)
BuildResults_skip_failed(tickers, d, sec, acc) ==
  IF tickers = <<>> THEN acc
  ELSE LET r == ResultFor(Head(tickers), d, sec)
       IN BuildResults_skip_failed(Tail(tickers), d, sec,
            IF r.HasError THEN acc ELSE Append(acc, r))

RECURSIVE BuildResults(_, _, _, _)
BuildResults(tickers, d, sec, acc) ==
  IF tickers = <<>> THEN acc
  ELSE BuildResults(Tail(tickers), d, sec,
                    Append(acc, ResultFor(Head(tickers), d, sec)))

(***************************************************************************)
(* main, lines 253-268: display.                                           *)
(***************************************************************************)
\* DataFrame(results).dropna(subset=["% Change"])
Valid(res) == SelectSeq(res, LAMBDA r : ~IsNA(r.Change))

IsPerm(p, n) == /\ p \in [1..n -> 1..n]
                /\ \A i, j \in 1..n : p[i] = p[j] => i = j

\* sort_values(by="% Change", ascending=False) with the default, unstable
\* sort kind: every arrangement with non-increasing % Change is possible.
SortOrders(v) ==
  {p \in [1..Len(v) -> 1..Len(v)] :
     /\ IsPerm(p, Len(v))
     /\ \A i \in 1..(Len(v) - 1) : FloatLE(v[p[i + 1]].Change, v[p[i]].Change)}

Arrange(v, p) == [i \in 1..Len(v) |-> v[p[i]]]

\* valid["Sector"].unique()
SectorsIn(v) == {v[i].Sector : i \in 1..Len(v)}

\* sorted() compares the values: it raises TypeError when they are not all
\* of one type.
Sortable(S) == \A a, b \in S : a.t = b.t

SectorRank(x) ==
  IF x.t = "str" THEN CHOOSE i \in 1..Len(SectorNames) : SectorNames[i] = x.v
  ELSE 0

RECURSIVE Sorted(_)
Sorted(S) ==
  IF S = {} THEN <<>>
  ELSE LET m == CHOOSE a \in S : \A b \in S : SectorRank(a) <= SectorRank(b)
       IN <<m>> \o Sorted(S \ {m})

Color(x) ==
  IF FloatLE(x, Num(0, 1)) /\ FloatLE(Num(0, 1), x) THEN "LIGHTBLACK_EX"
  ELSE IF FloatLE(x, Num(0, 1)) THEN "RED" ELSE "GREEN"

\* print_sector_block(valid[valid["Sector"] == sector], sector)
print_sector_block(v, sector) ==
  [sector |-> sector,
   rows   |-> [i \in 1..Len(SelectSeq(v, LAMBDA r : r.Sector = sector)) |->
                 LET r == SelectSeq(v, LAMBDA q : q.Sector = sector)[i]
                 IN [Ticker |-> r.Ticker, Previous |-> r.Previous,
                     Current |-> r.Current, Change |-> r.Change,
                     Color |-> Color(r.Change)]]]

\* errs = [r for r in results if r.get("Error")]
Errs(res) == SelectSeq(res, LAMBDA r : r.HasError /\ r.Error # "")

ErrorLines(res) ==
  [i \in 1..Len(Errs(res)) |->
     [Ticker |-> Errs(res)[i].Ticker, Error |-> Errs(res)[i].Error]]

\* What one cycle wrote: the "No valid symbols" warning, the report header,
\* the sector blocks, the error list, and the outer handler's error log.
Output(warned, header, blocks, errors, failed) ==
  [warned |-> warned, header |-> header, blocks |-> blocks,
   errors |-> errors, failed |-> failed]
NoOutput == Output(FALSE, FALSE, <<>>, <<>>, FALSE)

\* Variant: with no valid record the error list is skipped with the table.
Display_skip_errors(res, p) ==
  LET v == Valid(res)
  IN IF v = <<>>
     THEN Output(TRUE, FALSE, <<>>, <<>>, FALSE)
     ELSE LET sv == Arrange(v, p)
          IN IF ~Sortable(SectorsIn(sv))
             THEN Output(FALSE, TRUE, <<>>, <<>>, TRUE)
             ELSE LET order == Sorted(SectorsIn(sv))
                  IN Output(FALSE, TRUE,
                            [i \in 1..Len(order) |-> print_sector_block(sv, order[i])],
                            ErrorLines(res), FALSE)

Display(res, p) ==
  LET v == Valid(res)
  IN IF v = <<>>
     THEN Output(TRUE, FALSE, <<>>, ErrorLines(res), FALSE)
     ELSE LET sv == Arrange(v, p)
          IN IF ~Sortable(SectorsIn(sv))
             THEN Output(FALSE, TRUE, <<>>, <<>>, TRUE)
             ELSE LET order == Sorted(SectorsIn(sv))
                  IN Output(FALSE, TRUE,
                            [i \in 1..Len(order) |-> print_sector_block(sv, order[i])],
                            ErrorLines(res), FALSE)

\* main, lines 270-274: whatever the try block did, the loop goes on to sleep.
\* Variant: without the outer handler an error ends the process.
NextPhase_unhandled(o) == IF o.failed THEN "crashed" ELSE "sleeping"

NextPhase(o) == "sleeping"

(***************************************************************************)
(* main, lines 210-271: one FETCHING phase.  p is the arrangement the sort *)
(* produced.                                                               *)
(***************************************************************************)
Results(d, sec) ==
  IF d.kind # "table" THEN <<>> ELSE BuildResults(TICKERS, d, sec, <<>>)

\* Variant: an empty or missing frame is not rejected, so every ticker
\* fails on its own and the error list is printed.
LoopBody_no_empty_check(d, sec, p) ==
  IF d.kind = "error"
  THEN [results |-> <<>>, out |-> Output(FALSE, FALSE, <<>>, <<>>, TRUE)]
  ELSE [results |-> BuildResults(TICKERS, d, sec, <<>>),
        out |-> Display(BuildResults(TICKERS, d, sec, <<>>), p)]

LoopBody(d, sec, p) ==
  IF d.kind # "table"
  THEN [results |-> <<>>, out |-> Output(FALSE, FALSE, <<>>, <<>>, TRUE)]
  ELSE [results |-> Results(d, sec), out |-> Display(Results(d, sec), p)]

\* Variant: the cache is rebuilt from the lookups in every cycle.
CacheAfterCycle_rebuilt(f, sec, n, info, outcome) ==
  LET r == build_sector_cache(TICKERS, info)
  IN [file |-> WriteFile(f, r.sectors, outcome), sectors |-> r.sectors,
      calls |-> n + 1]

\* main, lines 209-274: the loop holds no call of ensure_sector_cache, no
\* assignment to sectors and no write of the file; sectors.get reads only.
CacheAfterCycle(f, sec, n, info, outcome) ==
  [file |-> f, sectors |-> sec, calls |-> n]

(***************************************************************************)
(* Initial states.                                                         *)
(***************************************************************************)
NoPrev == [sectors |-> EmptyDict, looked |-> <<>>, wrote |-> "none"]

InitCommon ==
  /\ pc = "start"
  /\ calls = 0
  /\ sectors = EmptyDict
  /\ loaded = EmptyDict
  /\ looked = <<>>
  /\ wrote = "none"
  /\ prev = NoPrev
  /\ data = NotFetched
  /\ results = <<>>
  /\ out = NoOutput
  /\ prevFailed = FALSE

\* The cache functions on their own: any file, any lookup outcomes.
InitCache ==
  /\ file \in FileStates
  /\ provider \in [Range(TICKERS) -> LookupOutcomes]
  /\ disk \in WriteOutcomes
  /\ InitCommon

\* The program is started in one of a few situations that cover: an absent
\* file, a partial one, a complete one, one with a non-string entry;
\* lookups that succeed and that raise; every outcome of the write.
OneEntry(v) == File("object", JsonDump([k \in {TICKERS[1]} |-> v]))
FullFile(v) == File("object", JsonDump([k \in Range(TICKERS) |-> v]))
AllETF == [tk \in Range(TICKERS) |-> "ETF"]
RestFail == [tk \in Range(TICKERS) |-> IF tk = TICKERS[1] THEN "ETF" ELSE LookupFail]

MainSituations ==
  { <<File("absent", {}), AllETF, "ok">>,
    <<OneEntry(Str("Technology")), RestFail, "open_fails">>,
    <<OneEntry(NumVal), AllETF, "dump_fails">>,
    <<FullFile(Str("Technology")), AllETF, "ok">> }

Init ==
  /\ \E s \in MainSituations : file = s[1] /\ provider = s[2] /\ disk = s[3]
  /\ InitCommon

(***************************************************************************)
(* Actions.                                                                *)
(***************************************************************************)
\* The effect of one call ensure_sector_cache(SECTOR_CACHE_FILE, TICKERS).
DoEnsure(r) ==
  /\ file' = r.file
  /\ sectors' = r.sectors
  /\ loaded' = r.loaded
  /\ looked' = r.looked
  /\ wrote' = r.wrote
  /\ prev' = [sectors |-> sectors, looked |-> looked, wrote |-> wrote]
  /\ calls' = calls + 1
  /\ UNCHANGED <<provider, disk>>

\* A caller that calls ensure_sector_cache and stays where it is, so that
\* calls in succession can be observed.
CallEnsure ==
  /\ pc = "start"
  /\ calls < MaxCalls
  /\ LET r == ensure_sector_cache(file, TICKERS, provider, disk)
     IN /\ DoEnsure(r)
        /\ pc' = IF r.raised THEN "crashed" ELSE pc
  /\ UNCHANGED cycleVars

\* main, line 207: the one call made before the loop.
Startup ==
  /\ pc = "start"
  /\ calls = 0
  /\ LET r == ensure_sector_cache(file, TICKERS, provider, disk)
     IN /\ DoEnsure(r)
        /\ pc' = IF r.raised THEN "crashed" ELSE "fetching"
  /\ UNCHANGED cycleVars

\* main, lines 210-271: fetch, build the results, display.
RunCycle(d) ==
  /\ data' = d
  /\ \E p \in SortOrders(Valid(Results(d, sectors))) :
       /\ results' = LoopBody(d, sectors, p).results
       /\ out' = LoopBody(d, sectors, p).out
       /\ pc' = NextPhase(LoopBody(d, sectors, p).out)
  /\ LET c == CacheAfterCycle(file, sectors, calls, provider, disk)
     IN file' = c.file /\ sectors' = c.sectors /\ calls' = c.calls
  /\ UNCHANGED <<provider, disk, loaded, looked, wrote, prev, prevFailed>>

Cycle ==
  /\ pc = "fetching"
  /\ \/ \E d \in FailedDownloads : RunCycle(d)
     \/ \E L \in 1..MaxRows : \E cols \in SUBSET Range(TICKERS) :
          \E d \in Tables(L, cols) : RunCycle(d)

\* main, lines 273-274: sleep, then the next iteration starts with nothing
\* printed; data and results are rebound before they are read again.
Sleep ==
  /\ pc = "sleeping"
  /\ pc' = "fetching"
  /\ prevFailed' = out.failed
  /\ data' = NotFetched
  /\ results' = <<>>
  /\ out' = NoOutput
  /\ UNCHANGED cacheVars

NextCache == CallEnsure

SpecCache == InitCache /\ [][NextCache]_vars

Next == Startup \/ Cycle \/ Sleep

Spec == Init /\ [][Next]_vars

\* The loop on its own start situation, with the progress the sequential
\* control flow gives: the download returns or raises, the sleep returns.
InitFair ==
  /\ file = OneEntry(NumVal) /\ provider = AllETF /\ disk = "dump_fails"
  /\ InitCommon

FairSpec ==
  InitFair /\ [][Next]_vars /\ WF_vars(Startup) /\ WF_vars(Cycle) /\ WF_vars(Sleep)

(***************************************************************************)
(* Properties.                                                             *)
(***************************************************************************)
\* A FETCHING phase whose download returned a table has just ended.
CycleDone == pc = "sleeping" /\ data.kind = "table"

\* Number of non-missing closes of a ticker in the fetched table.
ValidCloses(tk) ==
  IF tk \in DOMAIN data.close
  THEN Cardinality({j \in 1..data.rows : data.close[tk][j] # MissingCell})
  ELSE 0

\* The j-th non-missing close from the end (j = 1 is the last one).
RECURSIVE FromEnd(_, _, _)
FromEnd(col, n, j) ==
  IF col[n] # MissingCell
  THEN IF j = 1 THEN col[n] ELSE FromEnd(col, n - 1, j - 1)
  ELSE FromEnd(col, n - 1, j)

ChangeSet(r) == ~IsNA(r.Change)
ErrorSet(r) == r.HasError /\ r.Error # ""

\* C1: in a cycle whose fetch succeeded every ticker's record has exactly
\* one of PercentChange and Error populated: Error (and no PercentChange)
\* with fewer than two valid closes, PercentChange (and no Error) otherwise.
C1_ExactlyOnePopulated ==
  CycleDone =>
    /\ Len(results) = Len(TICKERS)
    /\ \A i \in 1..Len(results) :
         IF ValidCloses(TICKERS[i]) < 2
         THEN ErrorSet(results[i]) /\ ~ChangeSet(results[i])
         ELSE ChangeSet(results[i]) /\ ~ErrorSet(results[i])

C3_LoadedEntriesKept ==
  calls >= 1 =>
    /\ \A k \in DOMAIN loaded :
         /\ k \in DOMAIN sectors /\ sectors[k] = loaded[k]
         /\ wrote = "ok" => <<k, loaded[k]>> \in file.members
    /\ \A k \in (DOMAIN sectors) \ (DOMAIN loaded) : k \in Range(TICKERS)

\* A loaded entry differs from what its lookup would have returned, another
\* ticker was looked up and the file was rewritten.
C3_Witness ==
  /\ calls >= 1 /\ wrote = "ok" /\ looked # <<>>
  /\ \E k \in DOMAIN loaded \cap Range(TICKERS) :
       /\ provider[k] = "ETF"
       /\ loaded[k] = Str("Technology")
       /\ sectors[k] = Str("Technology")

\* C4 as stated: a call that follows another call makes no lookup and
\* returns the mapping the call before it returned.
C4_SecondCallNoLookup ==
  calls >= 2 => looked = <<>> /\ sectors = prev.sectors

\* C4 amended: it does so when the call before it found nothing missing or
\* wrote the file successfully.
C4_SecondCallNoLookupAfterWrite ==
  (calls >= 2 /\ prev.wrote \in {"ok", "none"}) =>
    looked = <<>> /\ sectors = prev.sectors

\* A second call after a first one that looked tickers up and wrote the file.
C4_Witness ==
  /\ calls >= 2 /\ prev.wrote = "ok" /\ prev.looked # <<>>
  /\ looked = <<>> /\ sectors = prev.sectors

\* C5: the tickers looked up are exactly the universe tickers without an
\* entry in the loaded cache, each once, in universe order.
C5_LookupsAreTheMissing ==
  calls >= 1 =>
    /\ \A k \in Range(TICKERS) : (k \in Range(looked)) <=> (k \notin DOMAIN loaded)
    /\ Range(looked) \subseteq Range(TICKERS)
    /\ \A i, j \in 1..Len(looked) : looked[i] = looked[j] => i = j

\* Some universe ticker had a loaded entry and some other one was looked up.
C5_Witness ==
  /\ calls >= 1
  /\ looked # <<>>
  /\ Len(looked) < Len(TICKERS)
  /\ \E k \in Range(TICKERS) : k \in DOMAIN loaded /\ k \notin Range(looked)

\* A file holds a well-formed mapping when it is a JSON object whose values
\* are all strings.
WellFormed(f) ==
  f.kind = "object" /\ \A m \in f.members : m[2].t = "str"

\* C6: load_sector_cache returns a non-empty mapping only for a file that
\* holds a well-formed mapping from ticker to sector string.
C6_LoadRejectsMalformed ==
  [][calls' = calls + 1 => (loaded' # EmptyDict => WellFormed(file))]_vars

\* C7: a lookup that raises leaves "Unknown" for its ticker, the tickers
\* after it are looked up and get their own entries, and nothing is raised.
C7_FailedLookupIsolated ==
  calls >= 1 =>
    /\ pc # "crashed"
    /\ \A k \in Range(TICKERS) : k \notin DOMAIN loaded => k \in Range(looked)
    /\ \A i \in 1..Len(looked) :
         /\ looked[i] \in DOMAIN sectors
         /\ provider[looked[i]] = LookupFail => sectors[looked[i]] = Str("Unknown")
         /\ provider[looked[i]] \in {"ETF", "Technology"}
              => sectors[looked[i]] = Str(provider[looked[i]])

\* The first lookup raised and a later one returned a sector.
C7_Witness ==
  /\ calls >= 1
  /\ Len(looked) >= 2
  /\ provider[looked[1]] = LookupFail
  /\ provider[looked[2]] = "ETF"
  /\ sectors[looked[1]] = Str("Unknown")
  /\ sectors[looked[2]] = Str("ETF")

\* C8: when the write of the cache file fails, startup still reaches the
\* loop with the merged mapping (loaded entries plus looked-up ones), and
\* the cycles take their sectors from it.
C8_WriteFailureTolerated ==
  (calls >= 1 /\ wrote \in {"open_fails", "dump_fails"}) =>
    /\ pc \in {"fetching", "sleeping"}
    /\ DOMAIN sectors = (DOMAIN loaded) \cup Range(looked)
    /\ \A k \in DOMAIN loaded : sectors[k] = loaded[k]
    /\ \A k \in Range(looked) : sectors[k] = SectorOf(provider[k])
    /\ CycleDone => \A i \in 1..Len(results) : results[i].Sector = sectors[TICKERS[i]]

\* A cycle has run after a startup whose write failed.
C8_Witness ==
  /\ CycleDone
  /\ wrote \in {"open_fails", "dump_fails"}
  /\ looked # <<>>
  /\ Len(results) = Len(TICKERS)
  /\ results[Len(results)].Sector = sectors[TICKERS[Len(TICKERS)]]

\* C9: once in the loop the program alternates FETCHING and SLEEPING and
\* never leaves it: a step from FETCHING goes to SLEEPING whatever happened
\* in the cycle, a step from SLEEPING goes to FETCHING, and each phase is
\* always followed by the other.
C9_AlternatesForever ==
  /\ [][/\ pc = "fetching" => pc' = "sleeping"
        /\ pc = "sleeping" => pc' = "fetching"
        /\ pc' # "crashed"]_vars
  /\ []<>(pc = "fetching")
  /\ []<>(pc = "sleeping")

\* A cycle that ended in the outer handler is over and the loop is asleep,
\* after an earlier cycle that ended there too.
C9_Witness == pc = "sleeping" /\ out.failed /\ prevFailed

Failed(d) == d.kind \in {"error", "none", "empty"}

\* C10: a cycle whose fetch raised or returned no data prints nothing, and
\* a cycle that follows a failed one computes its results and its report
\* from its own fetch and the startup mapping alone.
C10_FailedFetchLeavesNothing ==
  /\ (pc = "sleeping" /\ Failed(data)) =>
       /\ results = <<>>
       /\ ~out.warned /\ ~out.header /\ out.blocks = <<>> /\ out.errors = <<>>
       /\ out.failed
  /\ (CycleDone /\ prevFailed) =>
       /\ sectors = Update(loaded, [k \in Range(looked) |-> SectorOf(provider[k])])
       /\ results = BuildResults(TICKERS, data, sectors, <<>>)
       /\ \E p \in SortOrders(Valid(results)) : out = Display(results, p)

\* A cycle with a table, a sector block and an error line has run right
\* after a cycle whose fetch failed.
C10_Witness ==
  CycleDone /\ prevFailed /\ out.blocks # <<>> /\ out.errors # <<>>

InLoop == pc \in {"fetching", "sleeping"}

\* C11: the sector cache is built by the one call made before the loop;
\* no step of the loop, after a successful or a failed cycle, changes the
\* in-memory mapping or the cache file or makes a lookup.
C11_CacheFixedInLoop ==
  /\ [](InLoop => calls = 1)
  /\ [][InLoop => /\ sectors' = sectors
                  /\ file' = file
                  /\ calls' = calls
                  /\ looked' = looked]_vars

\* A successful cycle has run after a failed one, with the mapping and the
\* file still as the one startup call left them.
C11_Witness ==
  /\ CycleDone /\ prevFailed
  /\ calls = 1 /\ looked # <<>> /\ wrote = "ok"
  /\ file = File("object", JsonDump(sectors))

\* The fetched table cut down to the column of one ticker, and the sector
\* mapping cut down to its entry.
OwnColumn(tk) ==
  Download("table", data.rows,
           [k \in (DOMAIN data.close) \cap {tk} |-> data.close[k]])
OwnSector(tk) == [k \in (DOMAIN sectors) \cap {tk} |-> sectors[k]]

\* C12: every ticker of the universe is processed, and its record is the
\* one its own close column and its own sector entry give, whatever the
\* columns of the other tickers hold and whether or not they failed.
C12_PerTickerIsolation ==
  CycleDone =>
    /\ Len(results) = Len(TICKERS)
    /\ \A i \in 1..Len(results) :
         results[i] = ResultFor(TICKERS[i], OwnColumn(TICKERS[i]), OwnSector(TICKERS[i]))

\* A ticker that follows a failed one has its change computed.
C12_Witness ==
  /\ CycleDone
  /\ Len(results) = Len(TICKERS)
  /\ \E i, j \in 1..Len(results) :
       /\ i < j
       /\ ErrorSet(results[i])
       /\ ValidCloses(TICKERS[j]) >= 2
       /\ ChangeSet(results[j])

\* The tickers printed in the sector blocks.
Printed(o) ==
  {o.blocks[b].rows[i].Ticker : <<b, i>> \in
     {x \in (1..Len(o.blocks)) \X (1..Len(TICKERS)) : x[2] <= Len(o.blocks[x[1]].rows)}}

\* C13: a ticker with no column in the fetched table has Previous, Current
\* and PercentChange unset and a non-empty Error, and is in no sector block.
C13_AbsentTickerFails ==
  CycleDone =>
    \A i \in 1..Len(TICKERS) :
      TICKERS[i] \notin DOMAIN data.close =>
        /\ i <= Len(results)
        /\ results[i].Ticker = TICKERS[i]
        /\ results[i].Previous = None
        /\ results[i].Current = None
        /\ results[i].Change = None
        /\ results[i].HasError /\ results[i].Error # ""
        /\ TICKERS[i] \notin Printed(out)

\* A ticker is absent from the table while another one is in a block.
C13_Witness ==
  /\ CycleDone
  /\ \E i, j \in 1..Len(TICKERS) :
       /\ TICKERS[i] \notin DOMAIN data.close
       /\ ErrorSet(results[i])
       /\ TICKERS[j] \in Printed(out)
       /\ \E e \in 1..Len(out.errors) : out.errors[e].Ticker = TICKERS[i]

\* How many block rows and how many error lines name a ticker.
RowsOf(o, tk) ==
  Cardinality({x \in (1..Len(o.blocks)) \X (1..Len(TICKERS)) :
                 /\ x[2] <= Len(o.blocks[x[1]].rows)
                 /\ o.blocks[x[1]].rows[x[2]].Ticker = tk})
ErrorLinesOf(o, tk) ==
  Cardinality({e \in 1..Len(o.errors) : o.errors[e].Ticker = tk})

\* C14: in a cycle whose fetch succeeded every universe ticker is shown
\* exactly once: as one row of one sector block or as one error line.
C14_EveryTickerSurfacedOnce ==
  CycleDone =>
    \A i \in 1..Len(TICKERS) :
      RowsOf(out, TICKERS[i]) + ErrorLinesOf(out, TICKERS[i]) = 1

\* The sectors of the records that have a change.
ValidSectors == {results[i].Sector : i \in {j \in 1..Len(results) : ChangeSet(results[j])}}

\* C15: the report has one block per distinct sector of the valid records,
\* the blocks in lexicographic order of the sector name, the rows of each
\* block in non-increasing order of PercentChange.
C15_BlocksAndRowsOrdered ==
  (CycleDone /\ ValidSectors # {}) =>
    /\ Len(out.blocks) = Cardinality(ValidSectors)
    /\ {out.blocks[b].sector : b \in 1..Len(out.blocks)} = ValidSectors
    /\ \A b, c \in 1..Len(out.blocks) :
         b < c => SectorRank(out.blocks[b].sector) < SectorRank(out.blocks[c].sector)
    /\ \A b \in 1..Len(out.blocks) :
         \A i \in 1..(Len(out.blocks[b].rows) - 1) :
           FloatLE(out.blocks[b].rows[i + 1].Change, out.blocks[b].rows[i].Change)

\* Position of a ticker in the universe.
UniverseIndex(tk) == CHOOSE i \in 1..Len(TICKERS) : TICKERS[i] = tk

\* C16: two rows of a block with equal PercentChange are in universe order.
C16_TiesInUniverseOrder ==
  CycleDone =>
    \A b \in 1..Len(out.blocks) :
      \A i, j \in 1..Len(out.blocks[b].rows) :
        (i < j /\ out.blocks[b].rows[i].Change = out.blocks[b].rows[j].Change)
          => UniverseIndex(out.blocks[b].rows[i].Ticker)
               < UniverseIndex(out.blocks[b].rows[j].Ticker)

\* C17 as stated: a call of ensure_sector_cache that added a ticker leaves
\* the file as the full merged mapping, which loads as the returned
\* mapping; a call that found nothing missing leaves the file as it was.
C17_RewrittenWhenAdded ==
  [][calls' = calls + 1 =>
       IF looked' # <<>>
       THEN /\ file' = File("object", JsonDump(sectors'))
            /\ load_sector_cache(file') = sectors'
       ELSE file' = file]_vars

\* C17: the write is attempted exactly when the call added a ticker; when
\* nothing is missing the file is left as it was; when the write succeeds
\* the file is replaced by the whole merged mapping (every loaded entry
\* and every new one) and loads as the returned mapping; when the file
\* cannot be opened it is left as it was.
C17_RewriteAttemptedWhenAdded ==
  [][calls' = calls + 1 =>
       /\ (wrote' # "none") <=> (looked' # <<>>)
       /\ looked' = <<>> => file' = file
       /\ wrote' = "open_fails" => file' = file
       /\ wrote' = "ok" =>
            /\ file' = File("object", JsonDump(sectors'))
            /\ load_sector_cache(file') = sectors'
            /\ \A k \in DOMAIN loaded' :
                 /\ k \in DOMAIN load_sector_cache(file')
                 /\ load_sector_cache(file')[k] = loaded'[k]
            /\ \A i \in 1..Len(looked') :
                 looked'[i] \in DOMAIN load_sector_cache(file')]_vars

\* A call found entries in the file, added a ticker and wrote the file,
\* which now loads as the mapping the call returned.
C17_Witness ==
  /\ calls >= 1 /\ wrote = "ok"
  /\ loaded # EmptyDict /\ looked # <<>>
  /\ load_sector_cache(file) = sectors
  /\ DOMAIN loaded # DOMAIN sectors

\* C18: when a fetch succeeded and no record has a change, the warning is
\* written, no header and no block is, and the error list holds one line
\* for each record that carries an error.
C18_NoValidResult ==
  (CycleDone /\ \A i \in 1..Len(results) : ~ChangeSet(results[i])) =>
    /\ out.warned /\ ~out.header /\ out.blocks = <<>> /\ ~out.failed
    /\ Len(out.errors) = Cardinality({i \in 1..Len(results) : ErrorSet(results[i])})
    /\ \A i \in 1..Len(results) :
         ErrorSet(results[i]) =>
           \E e \in 1..Len(out.errors) :
             /\ out.errors[e].Ticker = results[i].Ticker
             /\ out.errors[e].Error = results[i].Error

\* Every ticker failed in a cycle whose fetch returned a table: the
\* warning and one error line per ticker.
C18_Witness ==
  /\ CycleDone /\ out.warned
  /\ \A i \in 1..Len(results) : ErrorSet(results[i])
  /\ Len(out.errors) = Len(TICKERS)

\* C19: whatever the file held and whichever lookups or write failed, the
\* mapping ensure_sector_cache returned has an entry for every ticker of
\* the universe, so the sector read never falls back to its default.
C19_EveryTickerHasSector ==
  calls >= 1 =>
    \A i \in 1..Len(TICKERS) :
      /\ TICKERS[i] \in DOMAIN sectors
      /\ SectorGet(sectors, TICKERS[i]) = sectors[TICKERS[i]]

\* Nothing was loaded, a lookup raised and the write failed, and every
\* ticker still has its entry.
C19_Witness ==
  /\ calls >= 1 /\ loaded = EmptyDict /\ wrote = "dump_fails"
  /\ \E tk \in Range(TICKERS) : provider[tk] = LookupFail
  /\ \A tk \in Range(TICKERS) : tk \in DOMAIN sectors

\* C20: after a fetch that returned a table, results has one record per
\* universe ticker, in universe order, none twice and none left out; a
\* cycle starts with no record of the cycle before.
C20_OneRecordPerTicker ==
  /\ CycleDone =>
       /\ Len(results) = Len(TICKERS)
       /\ \A i \in 1..Len(results) : results[i].Ticker = TICKERS[i]
       /\ \A i, j \in 1..Len(results) :
            results[i].Ticker = results[j].Ticker => i = j
  /\ pc = "fetching" => results = <<>>

\* A cycle after a failed one built a record with an error and a record
\* with a change.
C20_Witness ==
  /\ CycleDone /\ prevFailed
  /\ Len(results) = Len(TICKERS)
  /\ \E i, j \in 1..Len(results) : ErrorSet(results[i]) /\ ChangeSet(results[j])

====
